---------------------------- MODULE Spec2Model ----------------------------
(***************************************************************************)
(* Model of goit-cs-hw-05:                                                 *)
(*   task_1/sorted-data/py/task_2.py  Lexer -> Parser -> Interpreter       *)
(*   task_1/async_file_sorter.py      asynchronous file sorter             *)
(*   task_2/word_frequency.py         MapReduce word count                 *)
(*                                                                         *)
(* A text is a sequence of one-character strings; Python's 0-based         *)
(* text[pos] is text[pos + 1] here.  Numeric values are exact rationals    *)
(* [num, den] in lowest terms with den > 0: Python's int for + - * and     *)
(* the quotient of true division; float rounding is not modelled.          *)
(***************************************************************************)
EXTENDS Integers, Sequences, FiniteSets, TLC

VARIABLES
    mode,           \* "evaluate": main()'s pipeline; "lexer": a Lexer driven directly;
                    \* "again": interpret called once more on main()'s Interpreter
    text,           \* Lexer.text
    pos,            \* Lexer.pos
    current_char,   \* Lexer.current_char
    current_token,  \* Parser.current_token
    stack,          \* call stack of the Parser's methods (innermost frame last)
    ret,            \* value returned by the method that returned last
    pc,             \* position in main()'s try body
    tree,           \* Interpreter.interpret's local `tree`
    outcome,        \* "" while running, "value", or the class of the exception raised
    raised_by,      \* the function whose raise statement raised the exception
    result,         \* the value interpret returned
    log,            \* what visit_BinOp did for its DIV nodes, in order
    factor_none,    \* factor has returned None by falling off its end
    hist,           \* one entry per call of Lexer.get_next_token, in order
    eaten,          \* the number of tokens Parser.eat has accepted
    first,          \* how the first interpret call on the Interpreter ended
    source,         \* file sorter: the files under the source directory
    max_concurrency,\* read_folder's max_concurrency
    rf_pc,          \* position in read_folder
    sem,            \* the value of read_folder's semaphore
    tasks,          \* the state of each scheduled copy task
    out,            \* the content of each file of the output directory
    out_dirs,       \* the subfolders of the output directory
    stale,          \* the files being written whose destination another thread wrote
    failed,         \* the files whose copy raised (logged by _copy_file_async)
    mr_text,        \* word count: the text given to MapReduce.run
    num_mappers,    \* MapReduce.num_mappers
    num_reducers,   \* MapReduce.num_reducers
    mr_pc,          \* position in MapReduce.run
    chunks,         \* run's local `chunks`
    mapped_results, \* run's local `mapped_results`
    shuffled_data,  \* run's local `shuffled_data`, in insertion order
    reducer_assignments, \* run's local `reducer_assignments`
    reduced_results \* run's local `reduced_results`, in insertion order

calc_vars == <<mode, text, pos, current_char, current_token, stack, ret, pc, tree,
               outcome, raised_by, result, log, factor_none, hist, eaten, first>>

sorter_vars == <<source, max_concurrency, rf_pc, sem, tasks, out, out_dirs, stale, failed>>

mr_vars == <<mr_text, num_mappers, num_reducers, mr_pc, chunks, mapped_results,
             shuffled_data, reducer_assignments, reduced_results>>

vars == <<calc_vars, sorter_vars, mr_vars>>

---------------------------------------------------------------------------
(* Bounds *)

MaxLen == 3        \* every text of at most MaxLen characters is an input
MaxOps == 2        \* operator chains d op d ... op d with MaxOps operators are inputs
MaxCalls == 5      \* direct get_next_token calls on one Lexer
MaxFiles == 3      \* files under the source directory
MaxConcurrency == 2 \* read_folder's max_concurrency is in 1..MaxConcurrency
MaxTextLen == 4    \* MapReduce.run is given every text of at most MaxTextLen characters
MaxMappers == 3    \* num_mappers is in 1..MaxMappers
MaxReducers == 2   \* num_reducers is in 1..MaxReducers

---------------------------------------------------------------------------
(* Characters *)

None == "None"

Digits == {"0", "1", "2", "3"}
Whitespace == {" "}
Symbols == {"+", "-", "*", "/", "(", ")"}
Unknown == {"@"}

\* the characters of the exhaustively enumerated texts
Chars == {"0", "2", "3"} \cup Whitespace \cup Symbols \cup Unknown

isspace(c) == c \in Whitespace
isdigit(c) == c \in Digits

DigitValue(c) == CASE c = "0" -> 0 [] c = "1" -> 1 [] c = "2" -> 2 [] c = "3" -> 3

\* int(result) of a string of decimal digits
RECURSIVE int(_)
int(str) ==
    IF str = <<>> THEN 0
    ELSE 10 * int(SubSeq(str, 1, Len(str) - 1)) + DigitValue(str[Len(str)])

---------------------------------------------------------------------------
(* TokenType, Token *)

INTEGER == "INTEGER"
PLUS == "PLUS"
MINUS == "MINUS"
MUL == "MUL"
DIV == "DIV"
LPAREN == "("
RPAREN == ")"
EOF == "EOF"

Token(type, value) == [type |-> type, value |-> value]

NoToken == [type |-> None, value |-> None]

---------------------------------------------------------------------------
(* Lexer *)

Lexer(t) == [text |-> t, pos |-> 0,
             current_char |-> IF t # <<>> THEN t[1] ELSE None]

\* mutant of advance: current_char is read one character too far
advance_misread(lx) ==
    [lx EXCEPT !.pos = lx.pos + 1,
               !.current_char = IF lx.pos + 2 < Len(lx.text)
                                THEN lx.text[lx.pos + 3] ELSE None]

advance(lx) ==
    [lx EXCEPT !.pos = lx.pos + 1,
               !.current_char = IF lx.pos + 1 < Len(lx.text)
                                THEN lx.text[lx.pos + 2] ELSE None]

\* mutant of skip_whitespace: the loop runs one character too far
RECURSIVE skip_whitespace_overrun(_)
skip_whitespace_overrun(lx) ==
    IF lx.current_char # None /\ isspace(lx.current_char)
    THEN skip_whitespace_overrun(advance(lx))
    ELSE advance(lx)

RECURSIVE skip_whitespace(_)
skip_whitespace(lx) ==
    IF lx.current_char # None /\ isspace(lx.current_char)
    THEN skip_whitespace(advance(lx))
    ELSE lx

\* the while loop of integer(): the lexer after the digit run and the digits read
RECURSIVE integer_loop(_, _)
integer_loop(lx, res) ==
    IF lx.current_char # None /\ isdigit(lx.current_char)
    THEN integer_loop(advance(lx), Append(res, lx.current_char))
    ELSE [lexer |-> lx, result |-> res]

integer(lx) ==
    LET r == integer_loop(lx, <<>>)
    IN  [lexer |-> r.lexer, value |-> int(r.result)]

SymbolType(c) ==
    CASE c = "+" -> PLUS [] c = "-" -> MINUS [] c = "*" -> MUL
      [] c = "/" -> DIV [] c = "(" -> LPAREN [] c = ")" -> RPAREN

Returned(lx, tok) == [lexer |-> lx, token |-> tok, exc |-> "", char |-> None]

\* mutant of LexicalError: an unknown character ends the token stream
LexicalError_as_EOF(lx) == Returned(lx, Token(EOF, None))

\* mutant of LexicalError: the Lexer goes back to the start of the text
LexicalError_rewinding(lx) ==
    [lexer |-> Lexer(lx.text), token |-> NoToken, exc |-> "LexicalError",
     char |-> lx.current_char]

LexicalError(lx) ==
    [lexer |-> lx, token |-> NoToken, exc |-> "LexicalError", char |-> lx.current_char]

\* mutant of ReturnEOF: the end of the text is stepped over
ReturnEOF_advancing(lx) == Returned(advance(lx), Token(EOF, None))

\* the return after the while loop: the end of the text
ReturnEOF(lx) == Returned(lx, Token(EOF, None))

RECURSIVE get_next_token(_)
get_next_token(lx) ==
    IF lx.current_char = None THEN ReturnEOF(lx)
    ELSE IF isspace(lx.current_char) THEN get_next_token(skip_whitespace(lx))
    ELSE IF isdigit(lx.current_char)
         THEN LET r == integer(lx) IN Returned(r.lexer, Token(INTEGER, r.value))
    ELSE IF lx.current_char \in Symbols
         THEN Returned(advance(lx), Token(SymbolType(lx.current_char), lx.current_char))
    ELSE LexicalError(lx)


---------------------------------------------------------------------------
(* AST *)

NoneNode == [kind |-> "NoneType"]    \* Python's None where a node is expected
Unset == [kind |-> "unset"]          \* a local that has not been assigned

\* mutant of BinOp: the operands change places
BinOp_swapped(left, op, right) ==
    [kind |-> "BinOp", left |-> right, op |-> op, right |-> left]

BinOp(left, op, right) == [kind |-> "BinOp", left |-> left, op |-> op, right |-> right]

Num(token) == [kind |-> "Num", token |-> token, value |-> token.value]

---------------------------------------------------------------------------
(* Numbers *)

Abs(n) == IF n < 0 THEN -n ELSE n

RECURSIVE GCD(_, _)
GCD(a, b) == IF b = 0 THEN a ELSE GCD(b, a % b)

\* n / d in lowest terms, d # 0
Rat(n, d) ==
    LET g == GCD(Abs(n), Abs(d))
        sgn == IF d < 0 THEN -1 ELSE 1
    IN  [num |-> sgn * (n \div g), den |-> sgn * (d \div g)]

NoneValue == [num |-> None, den |-> None]

add(a, b) == Rat(a.num * b.den + b.num * a.den, a.den * b.den)
sub(a, b) == Rat(a.num * b.den - b.num * a.den, a.den * b.den)
mul(a, b) == Rat(a.num * b.num, a.den * b.den)
quot(a, b) == Rat(a.num * b.den, a.den * b.num)

---------------------------------------------------------------------------
(* Interpreter.visit: [exc, by, value, log] *)

Value(v, lg) == [exc |-> "", by |-> None, value |-> v, log |-> lg]
Raised(exc, by, lg) == [exc |-> exc, by |-> by, value |-> NoneValue, log |-> lg]

\* visit_BinOp did ev for the DIV node `node`; val is right_val
Event(ev, val, node) == [ev |-> ev, val |-> val, node |-> node]

\* the / operator of Python on two numbers
truediv(l, r, lg) ==
    IF r.num = 0 THEN Raised("ZeroDivisionError", "truediv", lg)
    ELSE Value(quot(l, r), lg)

RECURSIVE visit(_)

\* visit(left) <op> visit(right) for + - *: left operand first
Arith(node, op) ==
    LET l == visit(node.left)
    IN  IF l.exc # "" THEN l
        ELSE LET r == visit(node.right)
                 lg == l.log \o r.log
             IN  IF r.exc # "" THEN [r EXCEPT !.log = lg]
                 ELSE Value(CASE op = PLUS -> add(l.value, r.value)
                              [] op = MINUS -> sub(l.value, r.value)
                              [] op = MUL -> mul(l.value, r.value), lg)

\* mutant of visit_Div: the left operand is evaluated first
visit_Div_left_first(node) ==
    LET l == visit(node.left)
    IN  IF l.exc # "" THEN l
        ELSE LET lg1 == Append(l.log, Event("left", l.value, node))
                 r == visit(node.right)
                 lg2 == lg1 \o r.log
             IN  IF r.exc # "" THEN [r EXCEPT !.log = lg2]
                 ELSE LET lg3 == lg2 \o <<Event("right", r.value, node),
                                          Event("check", r.value, node)>>
                      IN  IF r.value.num = 0
                          THEN Raised("ZeroDivisionError", "visit_BinOp",
                                      Append(lg3, Event("raise", r.value, node)))
                          ELSE truediv(l.value, r.value,
                                       Append(lg3, Event("truediv", r.value, node)))

\* the DIV branch: right_val = visit(right); the check right_val == 0; then
\* visit(left) / right_val
visit_Div(node) ==
    LET r == visit(node.right)
    IN  IF r.exc # "" THEN r
        ELSE LET lg1 == r.log \o <<Event("right", r.value, node),
                                   Event("check", r.value, node)>>
             IN  IF r.value.num = 0
                 THEN Raised("ZeroDivisionError", "visit_BinOp",
                             Append(lg1, Event("raise", r.value, node)))
                 ELSE LET l == visit(node.left)
                          lg2 == lg1 \o l.log
                      IN  IF l.exc # "" THEN [l EXCEPT !.log = lg2]
                          ELSE truediv(l.value, r.value,
                                       lg2 \o <<Event("left", l.value, node),
                                                Event("truediv", r.value, node)>>)

visit_BinOp(node) ==
    IF node.op.type \in {PLUS, MINUS, MUL} THEN Arith(node, node.op.type)
    ELSE IF node.op.type = DIV THEN visit_Div(node)
    ELSE Value(NoneValue, <<>>)

visit_Num(node) == Value(Rat(node.value, 1), <<>>)

generic_visit(node) == Raised("Exception", "generic_visit", <<>>)

visit(node) ==
    IF node.kind = "BinOp" THEN visit_BinOp(node)
    ELSE IF node.kind = "Num" THEN visit_Num(node)
    ELSE generic_visit(node)

---------------------------------------------------------------------------
(* The program state as one record, and the steps of main()'s try body *)

St == [mode |-> mode, text |-> text, pos |-> pos, current_char |-> current_char,
       current_token |-> current_token, stack |-> stack, ret |-> ret, pc |-> pc,
       tree |-> tree, outcome |-> outcome, raised_by |-> raised_by,
       result |-> result, log |-> log, factor_none |-> factor_none, hist |-> hist,
       eaten |-> eaten, first |-> first]

SetState(s) ==
    /\ mode' = s.mode /\ text' = s.text /\ pos' = s.pos
    /\ current_char' = s.current_char /\ current_token' = s.current_token
    /\ stack' = s.stack /\ ret' = s.ret /\ pc' = s.pc /\ tree' = s.tree
    /\ outcome' = s.outcome /\ raised_by' = s.raised_by /\ result' = s.result
    /\ log' = s.log /\ factor_none' = s.factor_none /\ hist' = s.hist
    /\ eaten' = s.eaten /\ first' = s.first
    /\ UNCHANGED <<sorter_vars, mr_vars>>

IsState(s) ==
    /\ mode = s.mode /\ text = s.text /\ pos = s.pos
    /\ current_char = s.current_char /\ current_token = s.current_token
    /\ stack = s.stack /\ ret = s.ret /\ pc = s.pc /\ tree = s.tree
    /\ outcome = s.outcome /\ raised_by = s.raised_by /\ result = s.result
    /\ log = s.log /\ factor_none = s.factor_none /\ hist = s.hist
    /\ eaten = s.eaten /\ first = s.first

\* lexer = Lexer(text), before Parser(lexer)
Start(m, t) ==
    LET lx == Lexer(t)
    IN  [mode |-> m, text |-> t, pos |-> lx.pos, current_char |-> lx.current_char,
         current_token |-> NoToken, stack |-> <<>>, ret |-> Unset,
         pc |-> IF m = "lexer" THEN "lexer"
                ELSE IF m = "evaluate" THEN "Parser.__init__" ELSE "idle",
         tree |-> Unset, outcome |-> "", raised_by |-> None, result |-> NoneValue,
         log |-> <<>>, factor_none |-> FALSE, hist |-> <<>>, eaten |-> 0,
         first |-> [outcome |-> "", result |-> NoneValue]]

LexerOf(s) == [text |-> s.text, pos |-> s.pos, current_char |-> s.current_char]

WithLexer(s, lx) == [s EXCEPT !.pos = lx.pos, !.current_char = lx.current_char]

\* an exception leaves the try body: main() prints it
Raise(s, exc, by) ==
    [s EXCEPT !.outcome = exc, !.raised_by = by, !.pc = "done", !.stack = <<>>]

HistEntry(pre, r) ==
    [pre |-> pre, pos |-> r.lexer.pos, token |-> r.token, exc |-> r.exc, char |-> r.char]

\* r = lexer.get_next_token(), recorded in hist
LexerCall(s) ==
    LET r == get_next_token(LexerOf(s))
    IN  [res |-> r,
         state |-> [WithLexer(s, r.lexer) EXCEPT !.hist = Append(@, HistEntry(s.pos, r))]]

\* self.current_token = self.lexer.get_next_token()
NextToken(s) ==
    LET c == LexerCall(s)
    IN  IF c.res.exc # "" THEN Raise(c.state, c.res.exc, "get_next_token")
        ELSE [c.state EXCEPT !.current_token = c.res.token]

Frame(fn) == [fn |-> fn, at |-> "start", node |-> Unset, token |-> NoToken]

Top(s) == s.stack[Len(s.stack)]
SetTop(s, f) == [s EXCEPT !.stack[Len(s.stack)] = f]
Push(s, f) == [s EXCEPT !.stack = Append(@, f)]
Return(s, v) == [s EXCEPT !.stack = SubSeq(@, 1, Len(@) - 1), !.ret = v]
Call(s, at, fn) == Push(SetTop(s, [Top(s) EXCEPT !.at = at]), Frame(fn))

At(s, fn, at) ==
    /\ s.pc = "parse" /\ s.stack # <<>>
    /\ Top(s).fn = fn /\ Top(s).at \in at

---------------------------------------------------------------------------
(* Parser *)

\* mutant of Parser__init__: two tokens are pulled, the first is dropped
Parser__init__eager(s) ==
    LET dropped == NextToken(s)
        n == IF dropped.outcome # "" THEN dropped ELSE NextToken(dropped)
    IN  IF n.outcome # "" THEN n ELSE [n EXCEPT !.pc = "interpret"]

Parser__init__(s) ==
    LET n == NextToken(s)
    IN  IF n.outcome # "" THEN n ELSE [n EXCEPT !.pc = "interpret"]

error(s, caller) == Raise(s, "ParsingError", caller)

\* mutant of eat: the current token is not compared with token_type
eat_unchecked(s, token_type) == NextToken([s EXCEPT !.eaten = @ + 1])

eat(s, token_type) ==
    IF s.current_token.type = token_type THEN NextToken([s EXCEPT !.eaten = @ + 1])
    ELSE error(s, "eat")

\* factor, up to the call of expr or the return
factor_start(s) ==
    LET token == s.current_token
    IN  IF token.type = INTEGER
        THEN LET e == eat(s, INTEGER)
             IN  IF e.outcome # "" THEN e ELSE Return(e, Num(token))
        ELSE IF token.type = LPAREN
        THEN LET e == eat(s, LPAREN)
             IN  IF e.outcome # "" THEN e ELSE Call(e, "paren", "expr")
        ELSE [Return(s, NoneNode) EXCEPT !.factor_none = TRUE]

\* mutant of factor_paren: the parentheses are kept as a node of the tree
factor_paren_kept(s) ==
    LET node == s.ret
        e == eat(s, RPAREN)
    IN  IF e.outcome # "" THEN e ELSE Return(e, [kind |-> "Paren", expr |-> node])

\* factor, from the return of expr
factor_paren(s) ==
    LET node == s.ret
        e == eat(s, RPAREN)
    IN  IF e.outcome # "" THEN e ELSE Return(e, node)

term_start(s) == Call(s, "first", "factor")

\* term, from a return of factor: the assignment to node and the while loop
\* up to the next call of factor or the return
term_loop(s) ==
    LET f == Top(s)
        node == IF f.at = "first" THEN s.ret ELSE BinOp(f.node, f.token, s.ret)
        token == s.current_token
    IN  IF token.type \in {MUL, DIV}
        THEN LET e == IF token.type = MUL THEN eat(s, MUL) ELSE eat(s, DIV)
             IN  IF e.outcome # "" THEN e
                 ELSE Push(SetTop(e, [f EXCEPT !.at = "right", !.node = node,
                                               !.token = token]),
                           Frame("factor"))
        ELSE Return(s, node)

expr_start(s) == Call(s, "first", "term")

expr_loop(s) ==
    LET f == Top(s)
        node == IF f.at = "first" THEN s.ret ELSE BinOp(f.node, f.token, s.ret)
        token == s.current_token
    IN  IF token.type \in {PLUS, MINUS}
        THEN LET e == IF token.type = PLUS THEN eat(s, PLUS) ELSE eat(s, MINUS)
             IN  IF e.outcome # "" THEN e
                 ELSE Push(SetTop(e, [f EXCEPT !.at = "right", !.node = node,
                                               !.token = token]),
                           Frame("term"))
        ELSE Return(s, node)

parse_start(s) == Call(s, "expr", "expr")

\* mutant of parse_end: the current token is not compared with EOF
parse_end_unchecked(s) == [Return(s, s.ret) EXCEPT !.tree = s.ret, !.pc = "visit"]

\* parse, from the return of expr; its result is assigned to interpret's tree
parse_end(s) ==
    LET node == s.ret
    IN  IF s.current_token.type # EOF THEN error(s, "parse")
        ELSE [Return(s, node) EXCEPT !.tree = node, !.pc = "visit"]

---------------------------------------------------------------------------
(* Interpreter.interpret *)

interpret_parse(s) == [Push(s, Frame("parse")) EXCEPT !.pc = "parse"]

interpret_visit(s) ==
    LET v == visit(s.tree)
    IN  IF v.exc # "" THEN [Raise(s, v.exc, v.by) EXCEPT !.log = v.log]
        ELSE [s EXCEPT !.outcome = "value", !.result = v.value, !.log = v.log,
                       !.pc = "done"]

\* mutant of interpret_again: the call starts over with a new Lexer and Parser
interpret_again_fresh(s) ==
    [Parser__init__(Start("evaluate", s.text)) EXCEPT
        !.mode = "again",
        !.first = [outcome |-> s.outcome, result |-> s.result]]

\* interpreter.interpret() is called again on the same Interpreter: the
\* locals of the call are new, the Parser and its Lexer are as they were left
interpret_again(s) ==
    [s EXCEPT !.mode = "again",
              !.first = [outcome |-> s.outcome, result |-> s.result],
              !.pc = "interpret", !.stack = <<>>, !.ret = Unset, !.tree = Unset,
              !.outcome = "", !.raised_by = None, !.result = NoneValue,
              !.log = <<>>]

---------------------------------------------------------------------------
(* One step of the pipeline, and the pipeline run to its end *)

Step(s) ==
    CASE s.pc = "Parser.__init__" -> Parser__init__(s)
      [] s.pc = "interpret" -> interpret_parse(s)
      [] s.pc = "visit" -> interpret_visit(s)
      [] At(s, "parse", {"start"}) -> parse_start(s)
      [] At(s, "parse", {"expr"}) -> parse_end(s)
      [] At(s, "expr", {"start"}) -> expr_start(s)
      [] At(s, "expr", {"first", "right"}) -> expr_loop(s)
      [] At(s, "term", {"start"}) -> term_start(s)
      [] At(s, "term", {"first", "right"}) -> term_loop(s)
      [] At(s, "factor", {"start"}) -> factor_start(s)
      [] At(s, "factor", {"paren"}) -> factor_paren(s)

RECURSIVE Run(_)
Run(s) == IF s.pc = "done" THEN s ELSE Run(Step(s))

\* lexer = Lexer(text); parser = Parser(lexer); Interpreter(parser).interpret()
evaluate(t) == Run(Start("evaluate", t))

---------------------------------------------------------------------------
(* Inputs *)

StringsUpTo(n) == UNION {[1..k -> Chars] : k \in 0..n}

ChainDigits == {"0", "2", "3"}
ChainOps == {"+", "-", "*", "/"}

\* d op d ... op d with k operators
Chains(k) ==
    {[i \in 1..(2 * k + 1) |-> IF i % 2 = 1 THEN d[(i + 1) \div 2] ELSE o[i \div 2]] :
        d \in [1..(k + 1) -> ChainDigits], o \in [1..k -> ChainOps]}

\* (d op d) op d and d op (d op d)
Grouped ==
    UNION {{<<"(", a, o1, b, ")", o2, c>>, <<a, o1, "(", b, o2, c, ")">>} :
        a \in {"2", "3"}, b \in ChainDigits, c \in ChainDigits,
        o1 \in ChainOps, o2 \in ChainOps}

Samples ==
    {<<"1", "0", "-", "2", "-", "3">>,
     <<" ", " ", "2", " ", "+", " ", " ", "3", " ">>,
     <<"2", " ", "3", " ", "@">>,
     <<"(", "2", "+", "3">>,
     <<"2", "+", "2", ")">>,
     <<"(", "(", "2", ")", ")", "/", "0", "1">>}

Texts ==
    StringsUpTo(MaxLen) \cup UNION {Chains(k) : k \in 1..MaxOps} \cup Grouped \cup Samples

LexerTexts == StringsUpTo(MaxLen)

---------------------------------------------------------------------------
(* Specification of the expression pipeline and of the Lexer driven directly *)

CalcInit ==
    \E m \in {"evaluate", "lexer"} :
        \E t \in IF m = "lexer" THEN LexerTexts ELSE Texts :
            IsState(Start(m, t))

ParserInit == pc = "Parser.__init__" /\ SetState(Parser__init__(St))
InterpretParse == pc = "interpret" /\ SetState(interpret_parse(St))
ParseStart == At(St, "parse", {"start"}) /\ SetState(parse_start(St))
ParseEnd == At(St, "parse", {"expr"}) /\ SetState(parse_end(St))
ExprStart == At(St, "expr", {"start"}) /\ SetState(expr_start(St))
ExprLoop == At(St, "expr", {"first", "right"}) /\ SetState(expr_loop(St))
TermStart == At(St, "term", {"start"}) /\ SetState(term_start(St))
TermLoop == At(St, "term", {"first", "right"}) /\ SetState(term_loop(St))
FactorStart == At(St, "factor", {"start"}) /\ SetState(factor_start(St))
FactorParen == At(St, "factor", {"paren"}) /\ SetState(factor_paren(St))
InterpretVisit == pc = "visit" /\ SetState(interpret_visit(St))

\* the Interpreter exists: Parser(lexer) did not raise
InterpretAgain ==
    /\ mode = "evaluate" /\ pc = "done"
    /\ hist[1].exc = ""
    /\ SetState(interpret_again(St))

\* a caller of the Lexer pulls one token
GetNextToken ==
    /\ pc = "lexer"
    /\ Len(hist) < MaxCalls
    /\ SetState(LexerCall(St).state)

CalcNext ==
    \/ ParserInit \/ InterpretParse \/ ParseStart \/ ParseEnd
    \/ ExprStart \/ ExprLoop \/ TermStart \/ TermLoop
    \/ FactorStart \/ FactorParen \/ InterpretVisit \/ InterpretAgain
    \/ GetNextToken

---------------------------------------------------------------------------
(* async_file_sorter.py.  A file is its path below the source directory, a *)
(* sequence of parts; its content is identified with the file itself.      *)

EXCLUDED_DIRS == {".git", ".idea", "node_modules", "__pycache__"}

\* main()'s resolved --source
SourceRoot == <<"home", "data">>

FileUniverse ==
    {<<"x.txt">>, <<"a", "x.txt">>, <<"b", "x.txt">>, <<"a", "y.tar.gz">>,
     <<"b", "n.001">>, <<"b", "z">>, <<"node_modules", "x.txt">>, <<".git", "z">>,
     <<"a", ".env">>}

\* str.startswith(".") on the parts that occur
startswith_dot(part) == part \in {".git", ".idea", ".env"}

\* Path.suffixes, without the leading dots and lowercased (line 58)
SuffixParts(name) ==
    CASE name = "x.txt" -> <<"txt">>
      [] name = "y.tar.gz" -> <<"tar", "gz">>
      [] name = "n.001" -> <<"001">>
      [] OTHER -> <<>>

isalnum(p) == p \in {"txt", "tar", "gz", "001"}
has_alpha(p) == p \in {"txt", "tar", "gz"}

RECURSIVE Join(_)
Join(parts) ==
    IF Len(parts) = 1 THEN <<parts[1]>>
    ELSE <<parts[1], ".">> \o Join(Tail(parts))

PathName(f) == f[Len(f)]

_extension_folder_name(f) ==
    LET parts == SuffixParts(PathName(f))
        joined == Join(parts)
        allow_numeric_only == {<<"7z">>, <<"3gp">>, <<"3g2">>}
    IN  IF parts = <<>> THEN <<"no_extension">>
        ELSE IF /\ \A i \in 1..Len(parts) : isalnum(parts[i])
                /\ \/ \E i \in 1..Len(parts) : has_alpha(parts[i])
                   \/ joined \in allow_numeric_only
             THEN joined
        ELSE <<"no_extension">>

\* on path.parts of source_root / f
_should_skip(f) ==
    LET parts == SourceRoot \o f
    IN  \/ \E i \in 1..Len(parts) : startswith_dot(parts[i])
        \/ \E i \in 1..Len(parts) : parts[i] \in EXCLUDED_DIRS

\* copy_file: dst_dir = out_root / subfolder; _copy_file_async: dst = dst_dir / src.name
DstDir(f) == _extension_folder_name(f)
Dst(f) == <<DstDir(f), PathName(f)>>

Dsts == {Dst(f) : f \in FileUniverse}

Absent == <<"absent">>

\* bytes of several source files: two threads wrote the same destination,
\* each from its own offset 0
Mixed == <<"mixed">>

\* mutant of can_acquire: the semaphore never blocks
can_acquire_always(value) == TRUE

\* async with sem: the semaphore lets a task in
can_acquire(value) == value > 0

InSemaphore == {"copying", "writing", "copied", "copy_failed"}

\* MapReduce.run is not called
MRIdle ==
    /\ mr_text = <<>> /\ num_mappers = 0 /\ num_reducers = 0 /\ mr_pc = "idle"
    /\ chunks = <<>> /\ mapped_results = <<>> /\ shuffled_data = <<>>
    /\ reducer_assignments = <<>> /\ reduced_results = <<>>

SorterIdle ==
    /\ source = {} /\ max_concurrency = 0 /\ rf_pc = "idle" /\ sem = 0
    /\ tasks = <<>> /\ out = <<>> /\ out_dirs = {} /\ stale = {} /\ failed = {}

\* main() has made the output directory; read_folder is called
SorterInit ==
    /\ IsState(Start("idle", <<>>))
    /\ MRIdle
    /\ source \in {S \in SUBSET FileUniverse : Cardinality(S) <= MaxFiles}
    /\ max_concurrency \in 1..MaxConcurrency
    /\ rf_pc = "scan"
    /\ sem = 0
    /\ tasks = <<>>
    /\ out = [d \in Dsts |-> Absent]
    /\ out_dirs = {}
    /\ stale = {}
    /\ failed = {}

\* read_folder up to its await: the semaphore, the scan, the tasks created
Scan ==
    /\ rf_pc = "scan"
    /\ LET scheduled == {f \in source : ~_should_skip(f)}
       IN  /\ sem' = max_concurrency
           /\ tasks' = [f \in scheduled |-> "pending"]
           /\ rf_pc' = IF scheduled = {} THEN "returned" ELSE "gather"
    /\ UNCHANGED <<source, max_concurrency, out, out_dirs, stale, failed>>
    /\ UNCHANGED <<calc_vars, mr_vars>>

\* _task enters the semaphore; _copy_file_async makes dst_dir and hands
\* shutil.copy2 to a thread
TaskStart(f) ==
    /\ rf_pc = "gather"
    /\ tasks[f] = "pending"
    /\ can_acquire(sem)
    /\ sem' = sem - 1
    /\ out_dirs' = out_dirs \cup {DstDir(f)}
    /\ tasks' = [tasks EXCEPT ![f] = "copying"]
    /\ UNCHANGED <<source, max_concurrency, rf_pc, out, stale, failed>>
    /\ UNCHANGED <<calc_vars, mr_vars>>

\* as TaskStart, but mkdir raises: the except clause logs it and the task
\* leaves the semaphore
TaskStartMkdirFails(f) ==
    /\ rf_pc = "gather"
    /\ tasks[f] = "pending"
    /\ can_acquire(sem)
    /\ failed' = failed \cup {f}
    /\ tasks' = [tasks EXCEPT ![f] = "done"]
    /\ UNCHANGED <<source, max_concurrency, rf_pc, sem, out, out_dirs, stale>>
    /\ UNCHANGED <<calc_vars, mr_vars>>

\* the thread, shutil.copy2(src, dst): dst is opened for writing, truncated
CopyOpen(f) ==
    /\ tasks[f] = "copying"
    /\ out' = [out EXCEPT ![Dst(f)] = <<>>]
    /\ tasks' = [tasks EXCEPT ![f] = "writing"]
    /\ UNCHANGED <<source, max_concurrency, rf_pc, sem, out_dirs, stale, failed>>
    /\ UNCHANGED <<calc_vars, mr_vars>>

\* the thread, shutil.copy2(src, dst): the content is written from offset 0.
\* Where another thread wrote dst since this one opened it, the file holds
\* this content or, when the other content is longer, bytes of both.
CopyWrite(f) ==
    /\ tasks[f] = "writing"
    /\ \E content \in (IF f \in stale THEN {f, Mixed} ELSE {f}) :
            out' = [out EXCEPT ![Dst(f)] = content]
    /\ stale' = (stale \ {f}) \cup
                    {g \in DOMAIN tasks : g # f /\ tasks[g] = "writing" /\ Dst(g) = Dst(f)}
    /\ tasks' = [tasks EXCEPT ![f] = "copied"]
    /\ UNCHANGED <<source, max_concurrency, rf_pc, sem, out_dirs, failed>>
    /\ UNCHANGED <<calc_vars, mr_vars>>

\* the thread: shutil.copy2 raises
CopyThreadFails(f) ==
    /\ tasks[f] = "copying"
    /\ tasks' = [tasks EXCEPT ![f] = "copy_failed"]
    /\ UNCHANGED <<source, max_concurrency, rf_pc, sem, out, out_dirs, stale, failed>>
    /\ UNCHANGED <<calc_vars, mr_vars>>

\* mutant of TaskFinish: the exception of copy2 leaves the task and gather
\* raises it in read_folder
TaskFinish_propagating(f) ==
    /\ tasks[f] \in {"copied", "copy_failed"}
    /\ failed' = IF tasks[f] = "copy_failed" THEN failed \cup {f} ELSE failed
    /\ rf_pc' = IF tasks[f] = "copy_failed" THEN "raised" ELSE rf_pc
    /\ sem' = sem + 1
    /\ tasks' = [tasks EXCEPT ![f] = "done"]
    /\ UNCHANGED <<source, max_concurrency, out, out_dirs, stale>>
    /\ UNCHANGED <<calc_vars, mr_vars>>

\* the task resumes after the thread: logs, leaves the semaphore
TaskFinish(f) ==
    /\ tasks[f] \in {"copied", "copy_failed"}
    /\ failed' = IF tasks[f] = "copy_failed" THEN failed \cup {f} ELSE failed
    /\ sem' = sem + 1
    /\ tasks' = [tasks EXCEPT ![f] = "done"]
    /\ UNCHANGED <<source, max_concurrency, rf_pc, out, out_dirs, stale>>
    /\ UNCHANGED <<calc_vars, mr_vars>>

\* await asyncio.gather(*tasks) returns
GatherReturn ==
    /\ rf_pc = "gather"
    /\ \A f \in DOMAIN tasks : tasks[f] = "done"
    /\ rf_pc' = "returned"
    /\ UNCHANGED <<source, max_concurrency, sem, tasks, out, out_dirs, stale, failed>>
    /\ UNCHANGED <<calc_vars, mr_vars>>

SorterNext ==
    \/ Scan
    \/ \E f \in DOMAIN tasks : TaskStart(f)
    \/ \E f \in DOMAIN tasks : TaskStartMkdirFails(f)
    \/ \E f \in DOMAIN tasks : CopyOpen(f)
    \/ \E f \in DOMAIN tasks : CopyWrite(f)
    \/ \E f \in DOMAIN tasks : CopyThreadFails(f)
    \/ \E f \in DOMAIN tasks : TaskFinish(f)
    \/ GatherReturn

SorterSpec == SorterInit /\ [][SorterNext]_vars

\* the event loop runs every task that is ready and the thread pool runs
\* every copy2 to its end or its exception: a step that can be taken is taken
SorterFairSpec == SorterSpec /\ WF_vars(SorterNext)

---------------------------------------------------------------------------
(* word_frequency.py: MapReduce.  A str is a sequence of characters; a     *)
(* dict is the sequence of its items in insertion order.                   *)

\* the characters of the texts: two lower-case letters, an upper-case
\* letter and a separator
TextChars == {"a", "b", "A", " "}

\* str.lower()
lower(str) == [i \in 1..Len(str) |-> IF str[i] = "A" THEN "a" ELSE str[i]]

\* the characters \w matches
isword(c) == c \in {"a", "b", "A"}

\* \b at 0-based position p of str: exactly one side is a word character
word_boundary(str, p) ==
    (p > 0 /\ isword(str[p])) # (p < Len(str) /\ isword(str[p + 1]))

\* the greedy \w+ from position p: the position after the run
RECURSIVE match_w_plus(_, _)
match_w_plus(str, p) ==
    IF p < Len(str) /\ isword(str[p + 1]) THEN match_w_plus(str, p + 1) ELSE p

\* re.findall(r"\b\w+\b", str), scanning from position p.  After the greedy
\* \w+ the position is a word boundary, so no backtracking takes place.
RECURSIVE findall(_, _)
findall(str, p) ==
    IF p >= Len(str) THEN <<>>
    ELSE IF word_boundary(str, p) /\ isword(str[p + 1])
         THEN LET e == match_w_plus(str, p)
              IN  <<SubSeq(str, p + 1, e)>> \o findall(str, e)
    ELSE findall(str, p + 1)

_map(text_chunk) ==
    LET words == findall(lower(text_chunk), 0)
    IN  [i \in 1..Len(words) |-> <<words[i], 1>>]

\* the index of key among the items of a dict, 0 if absent
IndexOf(items, key) ==
    IF \E i \in 1..Len(items) : items[i][1] = key
    THEN CHOOSE i \in 1..Len(items) : items[i][1] = key
    ELSE 0

\* d[key] = value
SetItem(items, key, value) ==
    IF IndexOf(items, key) = 0 THEN Append(items, <<key, value>>)
    ELSE [items EXCEPT ![IndexOf(items, key)] = <<key, value>>]

\* defaultdict(list): d[key]
GetList(items, key) ==
    IF IndexOf(items, key) = 0 THEN <<>> ELSE items[IndexOf(items, key)][2]

RECURSIVE _shuffle_and_sort_loop(_, _)
_shuffle_and_sort_loop(mapped_values, shuffled) ==
    IF mapped_values = <<>> THEN shuffled
    ELSE LET key == mapped_values[1][1]
             value == mapped_values[1][2]
         IN  _shuffle_and_sort_loop(Tail(mapped_values),
                 SetItem(shuffled, key, Append(GetList(shuffled, key), value)))

_shuffle_and_sort(mapped_values) == _shuffle_and_sort_loop(mapped_values, <<>>)

RECURSIVE sum(_)
sum(values) == IF values = <<>> THEN 0 ELSE values[1] + sum(Tail(values))

_reduce(key, values) == <<key, sum(values)>>

Max(a, b) == IF a >= b THEN a ELSE b
Min(a, b) == IF a <= b THEN a ELSE b

chunk_size(str, mappers) == Max(1, (Len(str) + mappers - 1) \div mappers)

\* [text[i:i + chunk_size] for i in range(0, len(text), chunk_size)]
split_chunks(str, size) ==
    [j \in 1..((Len(str) + size - 1) \div size) |->
        SubSeq(str, (j - 1) * size + 1, Min(j * size, Len(str)))]

\* mapper_pool.map yields the results in the order of the chunks
RECURSIVE map_phase(_)
map_phase(cs) == IF cs = <<>> THEN <<>> ELSE _map(cs[1]) \o map_phase(Tail(cs))

\* reducer_assignments[i % num_reducers].append(key) over enumerate(keys)
RECURSIVE assign_keys(_, _, _, _)
assign_keys(shuffled, reducers, i, assignments) ==
    IF i >= Len(shuffled) THEN assignments
    ELSE LET r == i % reducers
         IN  assign_keys(shuffled, reducers, i + 1,
                 SetItem(assignments, r, Append(GetList(assignments, r), shuffled[i + 1][1])))

\* the keys in the order the futures are submitted
RECURSIVE submitted_keys(_)
submitted_keys(assignments) ==
    IF assignments = <<>> THEN <<>>
    ELSE assignments[1][2] \o submitted_keys(Tail(assignments))

\* k, v = future.result(); reduced_results[k] = v, over the futures
RECURSIVE reduce_phase(_, _, _)
reduce_phase(keys, shuffled, reduced) ==
    IF keys = <<>> THEN reduced
    ELSE LET kv == _reduce(keys[1], GetList(shuffled, keys[1]))
         IN  reduce_phase(Tail(keys), shuffled, SetItem(reduced, kv[1], kv[2]))

\* MapReduce(num_mappers, num_reducers).run(text) is called
MRInit ==
    /\ IsState(Start("idle", <<>>))
    /\ SorterIdle
    /\ mr_text \in UNION {[1..k -> TextChars] : k \in 0..MaxTextLen}
    /\ num_mappers \in 1..MaxMappers
    /\ num_reducers \in 1..MaxReducers
    /\ mr_pc = "split"
    /\ chunks = <<>> /\ mapped_results = <<>> /\ shuffled_data = <<>>
    /\ reducer_assignments = <<>> /\ reduced_results = <<>>

SplitText ==
    /\ mr_pc = "split"
    /\ chunks' = split_chunks(mr_text, chunk_size(mr_text, num_mappers))
    /\ mr_pc' = "map"
    /\ UNCHANGED <<mr_text, num_mappers, num_reducers, mapped_results, shuffled_data,
                   reducer_assignments, reduced_results>>
    /\ UNCHANGED <<calc_vars, sorter_vars>>

MapPhase ==
    /\ mr_pc = "map"
    /\ mapped_results' = map_phase(chunks)
    /\ mr_pc' = "shuffle"
    /\ UNCHANGED <<mr_text, num_mappers, num_reducers, chunks, shuffled_data,
                   reducer_assignments, reduced_results>>
    /\ UNCHANGED <<calc_vars, sorter_vars>>

ShufflePhase ==
    /\ mr_pc = "shuffle"
    /\ shuffled_data' = _shuffle_and_sort(mapped_results)
    /\ mr_pc' = "assign"
    /\ UNCHANGED <<mr_text, num_mappers, num_reducers, chunks, mapped_results,
                   reducer_assignments, reduced_results>>
    /\ UNCHANGED <<calc_vars, sorter_vars>>

AssignKeys ==
    /\ mr_pc = "assign"
    /\ reducer_assignments' = assign_keys(shuffled_data, num_reducers, 0, <<>>)
    /\ mr_pc' = "reduce"
    /\ UNCHANGED <<mr_text, num_mappers, num_reducers, chunks, mapped_results,
                   shuffled_data, reduced_results>>
    /\ UNCHANGED <<calc_vars, sorter_vars>>

ReducePhase ==
    /\ mr_pc = "reduce"
    /\ reduced_results' = reduce_phase(submitted_keys(reducer_assignments),
                                       shuffled_data, <<>>)
    /\ mr_pc' = "returned"
    /\ UNCHANGED <<mr_text, num_mappers, num_reducers, chunks, mapped_results,
                   shuffled_data, reducer_assignments>>
    /\ UNCHANGED <<calc_vars, sorter_vars>>

MRNext == SplitText \/ MapPhase \/ ShufflePhase \/ AssignKeys \/ ReducePhase

MRSpec == MRInit /\ [][MRNext]_vars

---------------------------------------------------------------------------
Init == CalcInit /\ SorterIdle /\ MRIdle

Next == CalcNext

Spec == Init /\ [][Next]_vars

---------------------------------------------------------------------------
(* The standard reading of an expression, defined on the text alone:       *)
(* tokens are maximal digit runs and single symbols, whitespace separates; *)
(* an expression splits at its last top-level + or -, else at its last     *)
(* top-level * or /, else it is a number or a parenthesised expression.    *)

RECURSIVE DigitRun(_)
DigitRun(t) == IF t # <<>> /\ t[1] \in Digits THEN 1 + DigitRun(Tail(t)) ELSE 0

RECURSIVE Decimal(_)
Decimal(ds) ==
    IF ds = <<>> THEN 0
    ELSE Decimal(SubSeq(ds, 1, Len(ds) - 1)) * 10 + DigitValue(ds[Len(ds)])

RECURSIVE RefTokens(_)
RefTokens(t) ==
    IF t = <<>> THEN <<>>
    ELSE IF t[1] \in Whitespace THEN RefTokens(Tail(t))
    ELSE IF t[1] \in Digits
         THEN LET k == DigitRun(t)
              IN  <<[type |-> "num", value |-> Decimal(SubSeq(t, 1, k))]>>
                  \o RefTokens(SubSeq(t, k + 1, Len(t)))
    ELSE IF t[1] \in Symbols
         THEN <<[type |-> t[1], value |-> 0]>> \o RefTokens(Tail(t))
    ELSE <<[type |-> "?", value |-> 0]>> \o RefTokens(Tail(t))

RECURSIVE Depth(_, _)
Depth(toks, i) ==
    IF i = 0 THEN 0
    ELSE Depth(toks, i - 1) + (IF toks[i].type = "(" THEN 1
                               ELSE IF toks[i].type = ")" THEN -1 ELSE 0)

Balanced(toks) ==
    /\ \A i \in 1..Len(toks) : Depth(toks, i) >= 0
    /\ Depth(toks, Len(toks)) = 0

TopLevel(toks, ops) ==
    {i \in 1..Len(toks) : toks[i].type \in ops /\ Depth(toks, i - 1) = 0}

SetMax(S) == CHOOSE x \in S : \A y \in S : y <= x

Invalid == [valid |-> FALSE, zero |-> FALSE, val |-> Rat(0, 1)]

RefApply(op, l, r) ==
    IF ~l.valid \/ ~r.valid THEN Invalid
    ELSE IF l.zero \/ r.zero \/ (op = "/" /\ r.val.num = 0)
         THEN [valid |-> TRUE, zero |-> TRUE, val |-> Rat(0, 1)]
    ELSE [valid |-> TRUE, zero |-> FALSE,
          val |-> CASE op = "+" -> add(l.val, r.val) [] op = "-" -> sub(l.val, r.val)
                    [] op = "*" -> mul(l.val, r.val) [] op = "/" -> quot(l.val, r.val)]

RECURSIVE RefEval(_)
RefEval(toks) ==
    LET n == Len(toks)
        additive == TopLevel(toks, {"+", "-"})
        multiplicative == TopLevel(toks, {"*", "/"})
        SplitAt(i) == RefApply(toks[i].type, RefEval(SubSeq(toks, 1, i - 1)),
                               RefEval(SubSeq(toks, i + 1, n)))
    IN  IF n = 0 \/ ~Balanced(toks) THEN Invalid
        ELSE IF additive # {} THEN SplitAt(SetMax(additive))
        ELSE IF multiplicative # {} THEN SplitAt(SetMax(multiplicative))
        ELSE IF n = 1 /\ toks[1].type = "num"
             THEN [valid |-> TRUE, zero |-> FALSE, val |-> Rat(toks[1].value, 1)]
        ELSE IF n >= 3 /\ toks[1].type = "(" /\ toks[n].type = ")"
             THEN RefEval(SubSeq(toks, 2, n - 1))
        ELSE Invalid

Finished == mode = "evaluate" /\ pc = "done"

---------------------------------------------------------------------------
\* C1: a syntactically valid expression in which no division has a zero right
\* operand evaluates to its value under the standard reading (* and / bind
\* tighter than + and -, equal precedence groups left to right, parentheses
\* override both).
C1_StandardReading ==
    Finished =>
        LET r == RefEval(RefTokens(text))
        IN  (r.valid /\ ~r.zero) => (outcome = "value" /\ result = r.val)

C1_Witness ==
    /\ Finished
    /\ text = <<"1", "0", "-", "2", "-", "3">>
    /\ outcome = "value" /\ result = Rat(5, 1)

\* C2: when factor is reached with a current token that is neither INTEGER nor
\* LPAREN, the evaluation ends in ParsingError, never in a value or in another
\* kind of error.  Stated for the inputs of recognised characters, which
\* include the claim's examples "", "2+", "+2", "()" and "2*)".
C2_FactorMismatchIsParsingError ==
    (Finished /\ factor_none /\ \A i \in 1..Len(text) : text[i] \notin Unknown)
        => outcome = "ParsingError"

---------------------------------------------------------------------------
\* The value an AST denotes, where it denotes one

RECURSIVE Denote(_)
Denote(node) ==
    IF node.kind = "Num" THEN [def |-> TRUE, val |-> Rat(node.value, 1)]
    ELSE IF node.kind = "BinOp"
    THEN LET l == Denote(node.left)
             r == Denote(node.right)
         IN  IF ~l.def \/ ~r.def \/ (node.op.type = DIV /\ r.val.num = 0)
             THEN [def |-> FALSE, val |-> Rat(0, 1)]
             ELSE [def |-> TRUE,
                   val |-> CASE node.op.type = PLUS -> add(l.val, r.val)
                             [] node.op.type = MINUS -> sub(l.val, r.val)
                             [] node.op.type = MUL -> mul(l.val, r.val)
                             [] node.op.type = DIV -> quot(l.val, r.val)]
    ELSE [def |-> FALSE, val |-> Rat(0, 1)]

\* some / node of the tree has a right operand that evaluates to zero
RECURSIVE HasZeroDivisor(_)
HasZeroDivisor(node) ==
    /\ node.kind = "BinOp"
    /\ \/ HasZeroDivisor(node.left)
       \/ HasZeroDivisor(node.right)
       \/ /\ node.op.type = DIV
          /\ Denote(node.right).def
          /\ Denote(node.right).val.num = 0

\* no division by zero was performed, and a raise ends the evaluation
DivisionGuarded ==
    /\ \A i \in 1..Len(log) : log[i].ev = "truediv" => log[i].val.num # 0
    /\ \A i \in 1..Len(log) : log[i].ev = "raise" =>
            /\ i = Len(log)
            /\ log[i].val.num = 0
            /\ outcome = "ZeroDivisionError"

\* C3: for an expression that parses successfully, interpret fails with the
\* division-by-zero error exactly when some / node has a right operand that
\* evaluates to zero; the check is made when the node is evaluated, never
\* while lexing or parsing, and when it fires the division is not performed.
C3_DivisionByZeroIff ==
    /\ (Finished /\ tree # Unset) =>
            (outcome = "ZeroDivisionError" <=> HasZeroDivisor(tree))
    /\ (outcome = "ZeroDivisionError") => (tree # Unset /\ raised_by = "visit_BinOp")
    /\ DivisionGuarded

\* C3, for the trees in which factor never returned None: holds
C3_DivisionByZeroIffOnProperTrees ==
    /\ (Finished /\ tree # Unset /\ ~factor_none) =>
            (outcome = "ZeroDivisionError" <=> HasZeroDivisor(tree))
    /\ (outcome = "ZeroDivisionError") => (tree # Unset /\ raised_by = "visit_BinOp")
    /\ DivisionGuarded

---------------------------------------------------------------------------
\* C4: parse returns a tree only if the current token is EOF once expr has
\* returned; if a token remains after a complete expression, parse fails with
\* ParsingError and returns no tree.
C4_ParseRequiresEOF ==
    /\ [](tree # Unset => (current_token.type = EOF /\ raised_by # "parse"))
    /\ [](raised_by = "parse" => (outcome = "ParsingError" /\ tree = Unset))
    /\ [][At(St, "parse", {"expr"}) =>
            IF current_token.type = EOF
            THEN tree' = ret /\ outcome' = ""
            ELSE tree' = Unset /\ outcome' = "ParsingError" /\ raised_by' = "parse"]_vars

C4_Witness ==
    /\ Finished
    /\ text = <<"2", "+", "2", ")">>
    /\ outcome = "ParsingError" /\ raised_by = "parse" /\ tree = Unset
    /\ current_token.type = RPAREN

---------------------------------------------------------------------------
\* some "(" of the text is not closed by a matching ")"
RECURSIVE OpenAtEnd(_)
OpenAtEnd(t) ==
    IF t = <<>> THEN 0
    ELSE LET d == OpenAtEnd(SubSeq(t, 1, Len(t) - 1))
             c == t[Len(t)]
         IN  IF c = "(" THEN d + 1
             ELSE IF c = ")" /\ d > 0 THEN d - 1
             ELSE d

Unclosed(t) == OpenAtEnd(t) > 0

\* every character is whitespace, a digit or one of + - * / ( )
Recognised(t) == \A i \in 1..Len(t) : t[i] \in Digits \cup Whitespace \cup Symbols

\* C5 as stated: every input with an unclosed "(" fails with ParsingError,
\* raised by eat(RPAREN) reached with a current token that is not RPAREN.
C5_UnclosedFailsInEat ==
    (Finished /\ Unclosed(text)) => (outcome = "ParsingError" /\ raised_by = "eat")

\* C5 as amended: every input of recognised characters with an unclosed "("
\* fails with ParsingError, raised by eat(RPAREN) or by parse's check for EOF;
\* eat raises only as eat(RPAREN) with a current token that is not RPAREN,
\* and then neither the current token nor the Lexer advances.
C5_UnclosedFails ==
    /\ []((Finished /\ Unclosed(text) /\ Recognised(text)) =>
            (outcome = "ParsingError" /\ raised_by \in {"eat", "parse"}))
    /\ [][raised_by' = "eat" =>
            /\ At(St, "factor", {"paren"})
            /\ current_token.type # RPAREN
            /\ outcome' = "ParsingError"
            /\ UNCHANGED <<current_token, pos, current_char, hist>>]_vars

C5_Witness ==
    /\ Finished
    /\ text = <<"(", "2", "+", "3">>
    /\ outcome = "ParsingError" /\ raised_by = "eat"
    /\ current_token.type = EOF

---------------------------------------------------------------------------
\* the character at or after 0-based position p that is not whitespace
RECURSIVE CharAfterSpaces(_, _)
CharAfterSpaces(t, p) ==
    IF p >= Len(t) THEN None
    ELSE IF t[p + 1] \in Whitespace THEN CharAfterSpaces(t, p + 1)
    ELSE t[p + 1]

\* C6: a get_next_token call that, after skipping whitespace, is at a character
\* that is neither a digit nor one of + - * / ( ) raises LexicalError carrying
\* that character and returns no token; the evaluation then fails as a whole
\* with LexicalError ("2+@").
C6_UnknownCharacter ==
    /\ \A i \in 1..Len(hist) :
            LET c == CharAfterSpaces(text, hist[i].pre)
            IN  c \notin (Digits \cup Symbols \cup {None}) =>
                    /\ hist[i].exc = "LexicalError"
                    /\ hist[i].char = c
                    /\ hist[i].token = NoToken
                    /\ mode = "evaluate" =>
                            (i = Len(hist) /\ outcome = "LexicalError" /\ pc = "done")
    /\ (Finished /\ text = <<"2", "+", "@">>) => outcome = "LexicalError"

C6_Witness ==
    /\ Finished
    /\ text = <<"2", "+", "@">>
    /\ outcome = "LexicalError"
    /\ hist[Len(hist)].char = "@"

---------------------------------------------------------------------------
\* C7: once get_next_token has returned EOF, every later call on the same
\* Lexer returns EOF with no payload, raises nothing and leaves the position
\* at the length of the text.
C7_EOFIdempotent ==
    \A i \in 1..Len(hist) : \A j \in 1..Len(hist) :
        (i < j /\ hist[i].token.type = EOF) =>
            /\ hist[j].exc = ""
            /\ hist[j].token.type = EOF
            /\ hist[j].token.value = None
            /\ hist[j].pre = Len(text)
            /\ hist[j].pos = Len(text)
            /\ pos = Len(text)

C7_Witness ==
    /\ mode = "lexer"
    /\ Len(hist) >= 3
    /\ hist[Len(hist) - 2].token.type = INTEGER
    /\ hist[Len(hist) - 1].token.type = EOF
    /\ hist[Len(hist)].token.type = EOF

---------------------------------------------------------------------------
\* text with one whitespace character inserted after its first i characters
InsertSpace(t, i) == SubSeq(t, 1, i) \o <<" ">> \o SubSeq(t, i + 1, Len(t))

\* position i lies inside a digit run
InsideDigitRun(t, i) == i >= 1 /\ i < Len(t) /\ t[i] \in Digits /\ t[i + 1] \in Digits

SameOutcome(a, b) ==
    /\ a.outcome = b.outcome
    /\ a.outcome = "value" => a.result = b.result

\* the tokens the Lexer returns for t, up to EOF or the first LexicalError
RECURSIVE TokenizeFrom(_)
TokenizeFrom(lx) ==
    LET r == get_next_token(lx)
    IN  IF r.exc # "" \/ r.token.type = EOF THEN <<>>
        ELSE <<r.token>> \o TokenizeFrom(r.lexer)

Tokenize(t) == TokenizeFrom(Lexer(t))

\* the end of the digit run that holds position i
RECURSIVE RunEnd(_, _)
RunEnd(t, i) == IF i < Len(t) /\ t[i + 1] \in Digits THEN RunEnd(t, i + 1) ELSE i

RECURSIVE RunStart(_, _)
RunStart(t, i) == IF i > 1 /\ t[i - 1] \in Digits THEN RunStart(t, i - 1) ELSE i

\* C8: whitespace inserted (or, read backwards, removed) at a token boundary
\* leaves the outcome of the evaluation unchanged, value or kind of error;
\* whitespace inside a digit run splits it into two INTEGER tokens.
C8_WhitespaceInsignificant ==
    Finished =>
        \A i \in 0..Len(text) :
            IF ~InsideDigitRun(text, i)
            THEN SameOutcome(evaluate(InsertSpace(text, i)), St)
            ELSE LET a == RunStart(text, i)
                     b == RunEnd(text, i)
                     whole == Tokenize(SubSeq(text, 1, b))
                     split == Tokenize(InsertSpace(SubSeq(text, 1, b), i))
                     left == SubSeq(text, a, i)
                     right == SubSeq(text, i + 1, b)
                 IN  Recognised(SubSeq(text, 1, b)) =>
                        /\ Len(split) = Len(whole) + 1
                        /\ SubSeq(split, 1, Len(whole) - 1) = SubSeq(whole, 1, Len(whole) - 1)
                        /\ whole[Len(whole)] = Token(INTEGER, Decimal(left \o right))
                        /\ split[Len(split) - 1] = Token(INTEGER, Decimal(left))
                        /\ split[Len(split)] = Token(INTEGER, Decimal(right))

C8_Witness ==
    /\ Finished
    /\ text = <<" ", " ", "2", " ", "+", " ", " ", "3", " ">>
    /\ outcome = "value" /\ result = Rat(5, 1)

C8_WitnessSplit ==
    /\ Finished
    /\ text = <<"2", "3">>
    /\ outcome = "value" /\ result = Rat(23, 1)
    /\ evaluate(InsertSpace(text, 1)).outcome = "ParsingError"


---------------------------------------------------------------------------
\* the copy operations in progress: the tasks inside the semaphore
InProgress == {f \in DOMAIN tasks : tasks[f] \in InSemaphore}

\* C9: once read_folder has completed with no copy failure, every file of
\* the source directory that is not skipped is in the output directory, at
\* <extension folder>/<name>, with its content.
C9_EveryFileCopied ==
    (rf_pc = "returned" /\ failed = {}) =>
        \A f \in source : ~_should_skip(f) => out[Dst(f)] = f

\* C10: at every moment during read_folder the copy operations in progress
\* are at most max_concurrency.
C10_ConcurrencyBounded ==
    rf_pc \in {"gather", "returned"} =>
        /\ Cardinality(InProgress) <= max_concurrency
        /\ sem = max_concurrency - Cardinality(InProgress)

C10_Witness ==
    /\ rf_pc = "gather"
    /\ Cardinality(InProgress) = max_concurrency
    /\ sem = 0
    /\ \E f \in DOMAIN tasks : tasks[f] = "pending"

---------------------------------------------------------------------------
(* The word counts of a text, counted in one pass over the unsplit text *)

\* a word of str starts after its first p characters and has n characters
WordAt(str, p, n) ==
    /\ n >= 1 /\ p + n <= Len(str)
    /\ \A i \in (p + 1)..(p + n) : isword(str[i])
    /\ (p = 0 \/ ~isword(str[p]))
    /\ (p + n = Len(str) \/ ~isword(str[p + n + 1]))

WordStarts(str) == {p \in 0..Len(str) : \E n \in 1..Len(str) : WordAt(str, p, n)}

WordFrom(str, p) == SubSeq(str, p + 1, CHOOSE e \in p..Len(str) : WordAt(str, p, e - p))

\* word -> number of its occurrences in the lower-cased text
WordCounts(str) ==
    LET low == lower(str)
        words == {WordFrom(low, p) : p \in WordStarts(low)}
    IN  [w \in words |-> Cardinality({p \in WordStarts(low) : WordFrom(low, p) = w})]

\* a dict of insertion-ordered items as a function
AsDict(items) ==
    [k \in {items[i][1] : i \in 1..Len(items)} |-> items[IndexOf(items, k)][2]]

\* C11: MapReduce.run(text) returns the word counts of the whole text, the
\* dictionary of counting the words of the unsplit lower-cased text in one
\* pass, for every num_mappers >= 1 and num_reducers >= 1.
C11_RunCountsWholeText ==
    mr_pc = "returned" => AsDict(reduced_results) = WordCounts(mr_text)

\* C11 with one mapper, where the text is one chunk: holds
C11_RunCountsWholeTextOneMapper ==
    (mr_pc = "returned" /\ num_mappers = 1) =>
        AsDict(reduced_results) = WordCounts(mr_text)

C11_OneMapperWitness ==
    /\ mr_pc = "returned" /\ num_mappers = 1 /\ num_reducers = 2
    /\ mr_text = <<"a", " ", "A", "b">>
    /\ AsDict(reduced_results) = (<<"a">> :> 1) @@ (<<"a", "b">> :> 1)

---------------------------------------------------------------------------
\* C12: between any two get_next_token calls, after calls that raise
\* LexicalError and after EOF, and on the empty text: 0 <= pos <= len(text),
\* current_char is text[pos] when pos < len(text), and current_char is None
\* exactly when pos = len(text).
C12_CursorInvariant ==
    mode \in {"evaluate", "lexer"} =>
        /\ 0 <= pos /\ pos <= Len(text)
        /\ pos < Len(text) => current_char = text[pos + 1]
        /\ current_char = None <=> pos = Len(text)

\* a call has raised LexicalError in the middle of the text and another call
\* has followed it
C12_Witness ==
    /\ mode = "lexer"
    /\ Len(hist) >= 2
    /\ hist[1].exc = "LexicalError"
    /\ 0 < pos /\ pos < Len(text)
    /\ current_char = "@"
    /\ text[pos + 1] = "@"

---------------------------------------------------------------------------
\* C13: from the construction of the Parser to the end of parse the Lexer has
\* produced exactly one token more than eat has accepted, and that token is
\* the Parser's current token; the Lexer is asked for a token only by the
\* constructor and by an eat that accepted one, each call going on where the
\* last one stopped.  A ParsingError therefore leaves the text after the
\* current token unread: nothing up to the Lexer's position is an
\* unrecognised character, and "2 3 @" fails with ParsingError.
C13_SingleLookahead ==
    mode = "evaluate" =>
        /\ pc = "Parser.__init__" => (hist = <<>> /\ eaten = 0)
        /\ pc # "Parser.__init__" => Len(hist) = eaten + 1
        /\ \A i \in 1..(Len(hist) - 1) : hist[i].exc = ""
        /\ \A i \in 2..Len(hist) : hist[i].pre = hist[i - 1].pos
        /\ hist # <<>> =>
                /\ hist[1].pre = 0
                /\ pos = hist[Len(hist)].pos
                /\ hist[Len(hist)].exc = "LexicalError" <=> outcome = "LexicalError"
        /\ (pc # "Parser.__init__" /\ outcome # "LexicalError") =>
                current_token = hist[Len(hist)].token
        /\ outcome = "ParsingError" => \A i \in 1..pos : text[i] \notin Unknown
        /\ (Finished /\ text = <<"2", " ", "3", " ", "@">>) => outcome = "ParsingError"

C13_Witness ==
    /\ Finished
    /\ text = <<"2", " ", "3", " ", "@">>
    /\ outcome = "ParsingError"
    /\ eaten = 1 /\ Len(hist) = 2
    /\ current_token = Token(INTEGER, 3)
    /\ pos = 3

---------------------------------------------------------------------------
\* how often visit_BinOp did ev for the DIV node n among the first k events
Count(k, ev, n) == Cardinality({i \in 1..k : log[i].ev = ev /\ log[i].node = n})

DivNodes == {log[i].node : i \in 1..Len(log)}

\* C14 as stated: when a / node is evaluated, its left operand is evaluated
\* before the check whether the right operand is zero is made.
C14_LeftBeforeZeroCheck ==
    \A k \in 1..Len(log) : \A n \in DivNodes :
        Count(k, "check", n) <= Count(k, "left", n)

\* C14 as amended: when a / node is evaluated, its right operand is evaluated
\* first, then the check whether it is zero is made, and the left operand is
\* evaluated only after the check has passed; when the check fires the left
\* operand is not evaluated.
C14_ZeroCheckBeforeLeft ==
    \A k \in 1..Len(log) : \A n \in DivNodes :
        /\ Count(k, "left", n) <= Count(k, "check", n)
        /\ Count(k, "check", n) <= Count(k, "right", n)
        /\ log[k].ev = "check" => (k > 1 /\ log[k - 1] = Event("right", log[k].val, log[k].node))
        /\ (log[k].ev = "left" /\ log[k].node = n) =>
                \E j \in 1..(k - 1) :
                    /\ log[j] = Event("check", log[j].val, n)
                    /\ log[j].val.num # 0
                    /\ Count(j, "check", n) = Count(k, "left", n)
        /\ (log[k].ev = "raise" /\ log[k].node = n) =>
                /\ log[k - 1] = Event("check", log[k].val, n)
                /\ Count(k, "left", n) < Count(k, "check", n)

\* 2/0/0: the outer / finds its right operand zero and raises; its left
\* operand 2/0 is never evaluated
C14_Witness ==
    /\ Finished
    /\ text = <<"2", "/", "0", "/", "0">>
    /\ outcome = "ZeroDivisionError"
    /\ log = <<Event("right", Rat(0, 1), tree), Event("check", Rat(0, 1), tree),
               Event("raise", Rat(0, 1), tree)>>

---------------------------------------------------------------------------
\* the 0-based position of the first character at or after p that is not
\* whitespace, or the length of the text
RECURSIVE SpacesEnd(_, _)
SpacesEnd(t, p) ==
    IF p < Len(t) /\ t[p + 1] \in Whitespace THEN SpacesEnd(t, p + 1) ELSE p

\* C15: the position never decreases; a call that returns a non-EOF token
\* strictly increases it (an operator or parenthesis by one character after
\* the whitespace, an INTEGER by its digit run); a call that raises
\* LexicalError or returns EOF advances only over the whitespace before the
\* offending character or the end of the text.
C15_NeverRewinds ==
    /\ [](\A i \in 1..Len(hist) :
            LET h == hist[i]
                q == SpacesEnd(text, h.pre)
            IN  /\ h.pre <= h.pos
                /\ i > 1 => hist[i - 1].pos = h.pre
                /\ i = Len(hist) => pos = h.pos
                /\ (h.exc = "" /\ h.token.type # EOF) => h.pre < h.pos
                /\ h.token.type \in {PLUS, MINUS, MUL, DIV, LPAREN, RPAREN} => h.pos = q + 1
                /\ h.token.type = INTEGER =>
                        h.pos = q + DigitRun(SubSeq(text, q + 1, Len(text)))
                /\ h.exc = "LexicalError" => (h.pos = q /\ q < Len(text))
                /\ h.token.type = EOF => (h.pos = q /\ q = Len(text)))
    /\ [][pos' >= pos]_vars

\* "2 @" lexed directly: INTEGER, then a LexicalError after one blank
C15_Witness ==
    /\ mode = "lexer"
    /\ Len(hist) >= 2
    /\ hist[1].token.type = INTEGER /\ hist[1].pre < hist[1].pos
    /\ hist[2].exc = "LexicalError"
    /\ hist[2].pos = hist[2].pre + 1
    /\ text[hist[2].pre + 1] = " "

---------------------------------------------------------------------------
\* the second interpret call on the Interpreter has ended
FinishedAgain == mode = "again" /\ pc = "done"

\* C16 as stated: two successive interpret calls on the same Interpreter share
\* no mutable state: the second call has the outcome of the first, the same
\* value or the same kind of error.
C16_SecondCallSameOutcome ==
    FinishedAgain =>
        /\ outcome = first.outcome
        /\ outcome = "value" => result = first.result

\* C16 as amended: the Interpreter has no state of its own, but successive
\* interpret calls share its Parser and Lexer: the second call goes on from
\* the current token and the position the first call left and reads nothing
\* again.  After a first call whose parse succeeded (it returned a value,
\* raised the division-by-zero error or failed visiting None) the current
\* token is EOF, no token is read, parse returns None and the second call
\* fails in generic_visit; it never returns the value again.
C16_SecondCallContinues ==
    /\ [][(mode = "evaluate" /\ mode' = "again") =>
            /\ UNCHANGED <<text, pos, current_char, current_token, hist, eaten>>
            /\ first' = [outcome |-> outcome, result |-> result]
            /\ pc' = "interpret"]_vars
    /\ []((FinishedAgain /\ first.outcome \in {"value", "ZeroDivisionError", "Exception"}) =>
            /\ outcome = "Exception" /\ raised_by = "generic_visit"
            /\ tree = NoneNode
            /\ current_token.type = EOF
            /\ Len(hist) = eaten + 1)

\* "2+3": the first call returns 5, the second fails
C16_Witness ==
    /\ FinishedAgain
    /\ text = <<"2", "+", "3">>
    /\ first = [outcome |-> "value", result |-> Rat(5, 1)]
    /\ outcome = "Exception"

---------------------------------------------------------------------------
\* the text is a valid expression: parse returned a tree without None
Parsed == Finished /\ tree # Unset /\ ~factor_none

\* d op d ... op d, every op of one precedence
OneLevelChain(t) ==
    /\ Len(t) >= 3 /\ Len(t) % 2 = 1
    /\ \A i \in 1..Len(t) : i % 2 = 1 => t[i] \in Digits
    /\ LET ops == {t[2 * i] : i \in 1..(Len(t) \div 2)}
       IN  ops \subseteq {"+", "-"} \/ ops \subseteq {"*", "/"}

Digit(c) == Num(Token(INTEGER, DigitValue(c)))
Operator(c) == Token(SymbolType(c), c)

\* the left-nested tree of a chain: BinOp(BinOp(f1, op, f2), op, f3) for three
RECURSIVE LeftNested(_)
LeftNested(t) ==
    IF Len(t) = 1 THEN Digit(t[1])
    ELSE BinOp(LeftNested(SubSeq(t, 1, Len(t) - 2)), Operator(t[Len(t) - 1]),
               Digit(t[Len(t)]))

\* C17: for every valid expression e, "(" e ")" parses to the tree of e, the
\* same node variants, operators and values in the same positions; a chain
\* f1 op f2 op f3 of operators of one precedence parses to
\* BinOp(BinOp(f1, op, f2), op, f3).
C17_ParenthesesLeaveNoTrace ==
    Parsed =>
        /\ LET wrapped == evaluate(<<"(">> \o text \o <<")">>)
           IN  /\ wrapped.tree = tree
               /\ ~wrapped.factor_none
               /\ SameOutcome(wrapped, St)
        /\ OneLevelChain(text) => tree = LeftNested(text)

C17_Witness ==
    /\ Parsed
    /\ text = <<"3", "/", "2", "*", "0">>
    /\ OneLevelChain(text)
    /\ tree = BinOp(BinOp(Digit("3"), Operator("/"), Digit("2")), Operator("*"), Digit("0"))
    /\ evaluate(<<"(", "3", "/", "2", "*", "0", ")">>).tree = tree

---------------------------------------------------------------------------
\* C18: read_folder returns only after every scheduled copy task has
\* finished; a copy that fails in mkdir or copy2 is logged and swallowed in
\* its own task: the step that logs it changes no other task and does not end
\* read_folder, every other scheduled file is still copied, and read_folder
\* returns.
C18_FailuresAreContained ==
    /\ [](rf_pc = "returned" => \A f \in DOMAIN tasks : tasks[f] = "done")
    /\ [](\A f \in failed : f \in DOMAIN tasks /\ tasks[f] = "done")
    /\ [](rf_pc \in {"scan", "gather", "returned"})
    /\ [][\A f \in failed' \ failed :
            /\ \A g \in DOMAIN tasks \ {f} : tasks'[g] = tasks[g]
            /\ rf_pc' = rf_pc
            /\ out' = out]_vars
    /\ [](rf_pc = "returned" => \A f \in DOMAIN tasks \ failed : out[Dst(f)] # Absent)
    /\ <>(rf_pc = "returned")

\* read_folder has returned; one copy failed in mkdir, one in copy2, and a
\* third file was copied
C18_Witness ==
    /\ rf_pc = "returned"
    /\ Cardinality(failed) = 2
    /\ \E f \in failed : out_dirs = {DstDir(g) : g \in DOMAIN tasks \ {f}}
    /\ \E f \in DOMAIN tasks \ failed : out[Dst(f)] = f

===========================================================================
